---- MODULE Spec2Model ----
(***************************************************************************)
(* A model of the three video-download servers of the repository:          *)
(*   app.py            FastAPI server  (/info, /download, /stream)         *)
(*   backend.py        subprocess-backed server (/video-info, /download)   *)
(*   simple_backend.py scrape-only server (/video-info)                    *)
(* Python strings whose characters the code inspects (URLs, quality        *)
(* tokens, selectors) are sequences of one-character strings.  Messages    *)
(* built with f-strings are sequences of their segments.  The extraction   *)
(* oracle (yt-dlp, the page fetch) is the environment: every handler draws *)
(* the oracle's outcome with \E.                                           *)
(***************************************************************************)
EXTENDS Integers, Sequences, FiniteSets, TLC

VARIABLES pc, req, call, resp, temp_dirs, downloads

vars == <<pc, req, call, resp, temp_dirs, downloads>>

(***************************************************************************)
(* Bounds of the model.                                                    *)
(***************************************************************************)
MaxUrlFrags == 4

MaxQualityFrags == 3

MaxShort == 3

MaxLadder == 11

\* /download requests of app.py that are followed
MaxDownloads == 2

(***************************************************************************)
(* String literals of the source, as character sequences.                  *)
(***************************************************************************)
S_watch_v ==
    <<"y","o","u","t","u","b","e",".","c","o","m","/","w","a","t","c","h","?","v","=">>

S_youtu_be_slash ==
    <<"y","o","u","t","u",".","b","e","/">>

S_embed ==
    <<"y","o","u","t","u","b","e",".","c","o","m","/","e","m","b","e","d","/">>

S_watch ==
    <<"y","o","u","t","u","b","e",".","c","o","m","/","w","a","t","c","h","?">>

S_youtube_com ==
    <<"y","o","u","t","u","b","e",".","c","o","m">>

S_youtu_be ==
    <<"y","o","u","t","u",".","b","e">>

S_slash_embed ==
    <<"/","e","m","b","e","d","/">>

S_v_eq ==
    <<"v","=">>

S_pct26 ==
    <<"%","2","6">>

S_pct3D ==
    <<"%","3","D">>

S_savefrom ==
    <<"h","t","t","p","s",":","/","/","s","a","v","e","f","r","o","m",".","n","e","t","/","#","u","r","l","=">>

S_y2mate ==
    <<"h","t","t","p","s",":","/","/","w","w","w",".","y","2","m","a","t","e",".","c","o","m","/","y","o","u","t","u","b","e","/">>

S_keepvid ==
    <<"h","t","t","p","s",":","/","/","k","e","e","p","v","i","d",".","c","o","m","/","?","u","r","l","=">>

S_clipconverter ==
    <<"h","t","t","p","s",":","/","/","w","w","w",".","c","l","i","p","c","o","n","v","e","r","t","e","r",".","c","c","/","2","/","#","u","r","l","=">>

S_onlinevideoconverter ==
    <<"h","t","t","p","s",":","/","/","w","w","w",".","o","n","l","i","n","e","v","i","d","e","o","c","o","n","v","e","r","t","e","r",".","c","o","m","/","s","u","c","c","e","s","s","?","u","r","l","=">>

S_best ==
    <<"b","e","s","t">>

S_worst ==
    <<"w","o","r","s","t">>

S_audio ==
    <<"a","u","d","i","o">>

S_mp3 ==
    <<"m","p","3">>

S_bestaudio ==
    <<"b","e","s","t","a","u","d","i","o","/","b","e","s","t">>

S_height_le ==
    <<"b","e","s","t","[","h","e","i","g","h","t","<","=">>

S_rbracket ==
    <<"]">>

(***************************************************************************)
(* Python string primitives.                                               *)
(***************************************************************************)
MinOf(S) == CHOOSE m \in S : \A k \in S : m <= k

MaxOf(S) == CHOOSE m \in S : \A k \in S : m >= k

\* s[i:i+len(p)] == p
IsPrefixAt(s, p, i) ==
    /\ i >= 1
    /\ i + Len(p) - 1 <= Len(s)
    /\ \A k \in 1..Len(p) : s[i + k - 1] = p[k]

\* s.find(p, from), 1-based; 0 when p does not occur
Find(s, p, from) ==
    LET hits == {i \in from..(Len(s) - Len(p) + 1) : IsPrefixAt(s, p, i)}
    IN  IF hits = {} THEN 0 ELSE MinOf(hits)

\* p in s
Contains(s, p) == Find(s, p, 1) # 0

\* s.split(sep)[0]
SplitPart0(s, sep) ==
    LET f == Find(s, sep, 1)
    IN  IF f = 0 THEN s ELSE SubSeq(s, 1, f - 1)

\* s.split(sep)[1]; raises IndexError when sep does not occur in s
SplitPart1(s, sep) ==
    LET f == Find(s, sep, 1)
    IN  IF f = 0
        THEN [raised |-> TRUE, value |-> <<>>]
        ELSE [raised |-> FALSE,
              value  |-> SplitPart0(SubSeq(s, f + Len(sep), Len(s)), sep)]

RECURSIVE ReplaceFrom(_, _, _, _)
ReplaceFrom(s, c, rep, i) ==
    IF i > Len(s) THEN <<>>
    ELSE (IF s[i] = c THEN rep ELSE <<s[i]>>) \o ReplaceFrom(s, c, rep, i + 1)

\* s.replace(c, rep) for a one-character c
Replace(s, c, rep) == ReplaceFrom(s, c, rep, 1)

(***************************************************************************)
(* simple_backend.py: extract_youtube_id (re.search over two patterns).    *)
(***************************************************************************)
\* the class without '?'
ClassWithoutQuestionMark == {"&", "\n", "#"}

\* the negated class [^&\n?#]
ClassStops == {"&", "\n", "?", "#"}

\* for ([^&\n?#]+) anchored at i: the index of the last character of the
\* greedy match, i - 1 when not even one character matches
RunEnd(s, i) ==
    LET stops == {k \in i..Len(s) : s[k] \in ClassStops}
    IN  IF stops = {} THEN Len(s) ELSE MinOf(stops) - 1

\* (?:youtube\.com/watch\?v=|youtu\.be/|youtube\.com/embed/)
Pattern1Alternatives == <<S_watch_v, S_youtu_be_slash, S_embed>>

\* the alternatives of pattern 1 that match at i with a non-empty group
Pattern1AltsAt(s, i) ==
    {a \in 1..Len(Pattern1Alternatives) :
        LET p == Pattern1Alternatives[a]
        IN  /\ IsPrefixAt(s, p, i)
            /\ RunEnd(s, i + Len(p)) >= i + Len(p)}

\* re.search(patterns[0], url)
SearchPattern1(s) ==
    LET starts == {i \in 1..Len(s) : Pattern1AltsAt(s, i) # {}}
    IN  IF starts = {}
        THEN [matched |-> FALSE, group |-> <<>>]
        ELSE LET i == MinOf(starts)
                 p == Pattern1Alternatives[MinOf(Pattern1AltsAt(s, i))]
                 b == i + Len(p)
             IN  [matched |-> TRUE, group |-> SubSeq(s, b, RunEnd(s, b))]

\* youtube\.com/watch\?.*v=([^&\n?#]+) anchored at i: the positions of "v="
\* that .* can reach (it does not cross a newline) with a non-empty group
Pattern2VAt(s, i) ==
    IF ~IsPrefixAt(s, S_watch, i) THEN {}
    ELSE {j \in (i + Len(S_watch))..Len(s) :
            /\ \A k \in (i + Len(S_watch))..(j - 1) : s[k] # "\n"
            /\ IsPrefixAt(s, S_v_eq, j)
            /\ RunEnd(s, j + 2) >= j + 2}

\* re.search(patterns[1], url); .* is greedy: the last reachable "v="
SearchPattern2(s) ==
    LET starts == {i \in 1..Len(s) : Pattern2VAt(s, i) # {}}
    IN  IF starts = {}
        THEN [matched |-> FALSE, group |-> <<>>]
        ELSE LET i == MinOf(starts)
                 b == MaxOf(Pattern2VAt(s, i)) + 2
             IN  [matched |-> TRUE, group |-> SubSeq(s, b, RunEnd(s, b))]

\* matched = FALSE is the return value None
extract_youtube_id(url) ==
    LET m1 == SearchPattern1(url)
    IN  IF m1.matched THEN m1 ELSE SearchPattern2(url)

(***************************************************************************)
(* backend.py: extract_video_id and generate_fallback_urls.                *)
(***************************************************************************)
\* raised = TRUE is an IndexError out of split(...)[1]
extract_video_id(url) ==
    IF Contains(url, S_youtube_com)
    THEN IF Contains(url, S_v_eq)
         THEN LET a == SplitPart1(url, S_v_eq)
              IN  [raised |-> a.raised, value |-> SplitPart0(a.value, <<"&">>)]
         ELSE IF Contains(url, S_slash_embed)
         THEN LET a == SplitPart1(url, S_slash_embed)
              IN  [raised |-> a.raised, value |-> SplitPart0(a.value, <<"?">>)]
         ELSE [raised |-> FALSE, value |-> <<>>]
    ELSE IF Contains(url, S_youtu_be)
    THEN LET a == SplitPart1(url, S_youtu_be_slash)
         IN  IF a.raised THEN a
             ELSE [raised |-> FALSE, value |-> SplitPart0(a.value, <<"?">>)]
    ELSE [raised |-> FALSE, value |-> <<>>]

FallbackKeys == {"savefrom", "y2mate", "keepvid", "clipconverter", "onlinevideoconverter"}

NoFallback == [k \in {} |-> <<>>]

\* raised = TRUE when extract_video_id raises while the dict is being built
generate_fallback_urls(url) ==
    LET encoded_url == Replace(Replace(url, "&", S_pct26), "=", S_pct3D)
        vid == extract_video_id(url)
    IN  IF vid.raised
        THEN [raised |-> TRUE, urls |-> NoFallback]
        ELSE [raised |-> FALSE,
              urls |-> [k \in FallbackKeys |->
                          CASE k = "savefrom" -> S_savefrom \o encoded_url
                            [] k = "y2mate" -> S_y2mate \o vid.value
                            [] k = "keepvid" -> S_keepvid \o encoded_url
                            [] k = "clipconverter" -> S_clipconverter \o encoded_url
                            [] OTHER -> S_onlinevideoconverter \o encoded_url]]

(***************************************************************************)
(* Python dicts are functions on the keys present: a missing key is a key  *)
(* outside DOMAIN.  A falsy height (0, None) is 0.                         *)
(***************************************************************************)
\* d.get(k, default)
Get(d, k, default) == IF k \in DOMAIN d THEN d[k] ELSE default

\* f"{height}p"
QualityLabel(height) == ToString(height) \o "p"

\* the slice one short: s[:n-1]
TakeOneLess(s, n) == SubSeq(s, 1, IF n - 1 < Len(s) THEN n - 1 ELSE Len(s))

\* s[:n]
Take(s, n) == SubSeq(s, 1, IF n < Len(s) THEN n ELSE Len(s))

\* the place of x in a list already sorted by height, highest first; equal
\* keys keep their original order (list.sort is stable, also with reverse)
RECURSIVE InsertDesc(_, _)
InsertDesc(sorted, x) ==
    IF sorted = <<>> THEN <<x>>
    ELSE IF Head(sorted).height >= x.height
         THEN <<Head(sorted)>> \o InsertDesc(Tail(sorted), x)
         ELSE <<x>> \o sorted

RECURSIVE SortFrom(_, _, _)
SortFrom(s, i, sorted) ==
    IF i > Len(s) THEN sorted ELSE SortFrom(s, i + 1, InsertDesc(sorted, s[i]))

RECURSIVE InsertAsc(_, _)
InsertAsc(sorted, x) ==
    IF sorted = <<>> THEN <<x>>
    ELSE IF Head(sorted).height <= x.height
         THEN <<Head(sorted)>> \o InsertAsc(Tail(sorted), x)
         ELSE <<x>> \o sorted

RECURSIVE SortAscFrom(_, _, _)
SortAscFrom(s, i, sorted) ==
    IF i > Len(s) THEN sorted ELSE SortAscFrom(s, i + 1, InsertAsc(sorted, s[i]))

\* the sort without reverse=True
SortByHeightAsc(s) == SortAscFrom(s, 1, <<>>)

\* list.sort(key=lambda x: x['height'], reverse=True)
SortByHeightDesc(s) == SortFrom(s, 1, <<>>)

InfoCap == 10

BackendCap == 5

(***************************************************************************)
(* app.py: the format list of /info.                                       *)
(***************************************************************************)
\* mutant of app_collect: a later record of a height replaces the earlier one
RECURSIVE app_collect_last_seen(_, _, _, _)
app_collect_last_seen(formats, i, out, seen_qualities) ==
    IF i > Len(formats) THEN out
    ELSE LET fmt == formats[i]
             height == Get(fmt, "height", 0)
             entry == [quality   |-> QualityLabel(height),
                       height    |-> height,
                       ext       |-> Get(fmt, "ext", "mp4"),
                       filesize  |-> Get(fmt, "filesize", "None"),
                       format_id |-> Get(fmt, "format_id", "None")]
         IN  IF Get(fmt, "vcodec", "None") # "none" /\ height # 0
             THEN app_collect_last_seen(formats, i + 1,
                      IF height \in seen_qualities
                      THEN [j \in 1..Len(out) |->
                               IF out[j].height = height THEN entry ELSE out[j]]
                      ELSE Append(out, entry),
                      seen_qualities \cup {height})
             ELSE app_collect_last_seen(formats, i + 1, out, seen_qualities)

RECURSIVE app_collect(_, _, _, _)
app_collect(formats, i, out, seen_qualities) ==
    IF i > Len(formats) THEN out
    ELSE LET fmt == formats[i]
             height == Get(fmt, "height", 0)
         IN  IF /\ Get(fmt, "vcodec", "None") # "none"
                /\ height # 0
                /\ height \notin seen_qualities
             THEN app_collect(formats, i + 1,
                      Append(out, [quality   |-> QualityLabel(height),
                                   height    |-> height,
                                   ext       |-> Get(fmt, "ext", "mp4"),
                                   filesize  |-> Get(fmt, "filesize", "None"),
                                   format_id |-> Get(fmt, "format_id", "None")]),
                      seen_qualities \cup {height})
             ELSE app_collect(formats, i + 1, out, seen_qualities)

\* the value of "formats" in the /info body, for info = the oracle's dict
app_formats(info) ==
    IF "formats" \in DOMAIN info
    THEN Take(SortByHeightDesc(app_collect(info.formats, 1, <<>>, {})), InfoCap)
    ELSE <<>>

(***************************************************************************)
(* backend.py: extract_formats.                                            *)
(***************************************************************************)
RECURSIVE backend_collect(_, _, _, _)
backend_collect(formats, i, extracted_formats, seen_qualities) ==
    IF i > Len(formats) THEN extracted_formats
    ELSE LET fmt == formats[i]
             height == Get(fmt, "height", 0)
         IN  IF /\ Get(fmt, "vcodec", "None") # "none"
                /\ height # 0
                /\ height \notin seen_qualities
             THEN backend_collect(formats, i + 1,
                      Append(extracted_formats,
                             [format_id |-> Get(fmt, "format_id", ""),
                              quality   |-> QualityLabel(height),
                              height    |-> height,
                              ext       |-> Get(fmt, "ext", "mp4"),
                              filesize  |-> Get(fmt, "filesize", "0")]),
                      seen_qualities \cup {height})
             ELSE backend_collect(formats, i + 1, extracted_formats, seen_qualities)

extract_formats(formats) ==
    Take(SortByHeightDesc(backend_collect(formats, 1, <<>>, {})), BackendCap)

(***************************************************************************)
(* The quality selectors.                                                  *)
(***************************************************************************)
\* str.isdigit, on the ASCII characters the model draws
IsDigit(c) == c \in {"0", "1", "2", "3", "4", "5", "6", "7", "8", "9"}

\* ''.join(filter(str.isdigit, quality))
FilterDigits(quality) == SelectSeq(quality, IsDigit)

\* app.py /download: format_selector and ext
download_selector(quality) ==
    IF quality \in {S_audio, S_mp3}
    THEN [format_selector |-> S_bestaudio, ext |-> "mp3"]
    ELSE IF quality \in {S_best, S_worst}
    THEN [format_selector |-> quality, ext |-> "mp4"]
    ELSE LET height == FilterDigits(quality)
         IN  IF height # <<>>
             THEN [format_selector |-> S_height_le \o height \o S_rbracket, ext |-> "mp4"]
             ELSE [format_selector |-> S_best, ext |-> "mp4"]

\* app.py /stream: format_selector
stream_selector(quality) ==
    IF quality \in {S_audio, S_mp3} THEN S_bestaudio
    ELSE IF quality \in {S_best, S_worst} THEN quality
    ELSE LET height == FilterDigits(quality)
         IN  IF height # <<>> THEN S_height_le \o height \o S_rbracket ELSE S_best

\* backend.py get_download_url: format_selector
backend_selector(quality) ==
    IF quality \in {S_best, S_worst} THEN quality
    ELSE S_height_le \o quality \o S_rbracket

(***************************************************************************)
(* The inputs the model draws.                                             *)
(***************************************************************************)
\* every concatenation of at most n of the fragments
RECURSIVE Concats(_, _)
Concats(frags, n) ==
    IF n = 0 THEN {<<>>}
    ELSE LET shorter == Concats(frags, n - 1)
         IN  shorter \cup {a \o f : a \in shorter, f \in frags}

Ex1 ==
    <<"h","t","t","p","s",":","/","/","w","w","w",".","y","o","u","t","u","b","e",".","c","o","m","/","w","a","t","c","h","?","v","=","A","B","C","1","2","3","&","t","=","5">>

Ex2 ==
    <<"h","t","t","p","s",":","/","/","y","o","u","t","u",".","b","e","/","X","Y","Z","7","8","9","?","x","=","1">>

ExQuery ==
    <<"h","t","t","p","s",":","/","/","w","w","w",".","y","o","u","t","u","b","e",".","c","o","m","/","w","a","t","c","h","?","t","=","5","&","v","=","A","B","C","1","2","3","&","x","=","1">>

ExHash ==
    <<"h","t","t","p","s",":","/","/","y","o","u","t","u",".","b","e","/","X","Y","Z","7","8","9","#","t","=","5">>

ExNewline ==
    <<"y","o","u","t","u","b","e",".","c","o","m","/","w","a","t","c","h","?","a","\n","v","=","A","B">>

NotAUrl ==
    <<"n","o","t"," ","a"," ","u","r","l">>

UrlFrags ==
    {S_watch, S_v_eq, S_youtu_be, <<"/">>, S_embed, <<"A","B">>, <<"&">>, <<"?">>}

\* the url parameter; <<>> is an empty or missing parameter
Urls == Concats(UrlFrags, MaxUrlFrags) \cup {Ex1, Ex2, ExQuery, ExHash, ExNewline, NotAUrl}

AppUrls == {Ex1, NotAUrl}

Q720p ==
    <<"7","2","0","p">>

QualityFrags ==
    {<<"7","2","0">>, <<"6","0">>, <<"p">>, S_best, S_worst, S_audio, S_mp3, <<"h","d">>}

Qualities == Concats(QualityFrags, MaxQualityFrags)

MaxHeight == 2

\* a raw format record of the oracle, the i-th of its list
MakeRaw(kind, h, i) ==
    CASE kind = "video" ->
           [format_id |-> ToString(i), height |-> h, vcodec |-> "avc1",
            ext |-> "webm", filesize |-> "1000", url |-> "https://cdn/" \o ToString(i)]
      [] kind = "audio" ->
           [format_id |-> ToString(i), height |-> h, vcodec |-> "none",
            ext |-> "m4a", url |-> "https://cdn/" \o ToString(i)]
      [] OTHER ->
           IF h = 0 THEN [format_id |-> ToString(i)]
           ELSE [format_id |-> ToString(i), height |-> h]

RawKinds == {<<k, h>> : k \in {"video", "audio", "bare"}, h \in 0..MaxHeight}

\* n video records of heights 1..n, in one of three orders
Ladder(n, order) ==
    [i \in 1..n |->
        <<"video",
          CASE order = "asc" -> i
            [] order = "desc" -> n + 1 - i
            [] OTHER -> IF 2 * i - 1 <= n THEN 2 * i - 1 ELSE 2 * (n + 1 - i)>>]

FormatShapes ==
    Concats({<<k>> : k \in RawKinds}, MaxShort)
    \cup {pre \o Ladder(n, order) \o post :
            pre \in Concats({<<k>> : k \in RawKinds}, 1),
            post \in Concats({<<k>> : k \in RawKinds}, 1),
            n \in 4..MaxLadder,
            order \in {"asc", "desc", "zigzag"}}

\* the oracle's "formats" lists
FormatInputs ==
    {[i \in 1..Len(shape) |-> MakeRaw(shape[i][1], shape[i][2], i)] : shape \in FormatShapes}

OracleErrors == {"ERROR: Unsupported URL", "ERROR: Video unavailable"}

TimeoutText == "Command '['yt-dlp', ...]' timed out after 30 seconds"

NotFoundText == "[Errno 2] No such file or directory: 'yt-dlp'"

JsonText == "Expecting value: line 1 column 1 (char 0)"

NoInfo == <<>>

\* an outcome of one oracle invocation: "ok" (the library returns info, the
\* subprocess exits 0 with stdout, and listing is what it left in temp_dir),
\* "error" (the library raises, the subprocess exits non-zero with stderr err),
\* "timeout" (TimeoutExpired), "not_found" (FileNotFoundError), "bad_json"
\* (exit 0 with a stdout line json.loads rejects)
Outcome(kind, err, info, stdout, listing) ==
    [kind |-> kind, err |-> err, info |-> info, stdout |-> stdout, listing |-> listing]

Failed(kind, err) == Outcome(kind, err, NoInfo, "", <<>>)

Returned(info) == Outcome("ok", "", info, "", <<>>)

NoCall == [invoked |-> FALSE, selector |-> <<>>, outcome |-> Failed("none", "")]

Invoke(selector, outcome) == [invoked |-> TRUE, selector |-> selector, outcome |-> outcome]

(***************************************************************************)
(* Responses.  status 0: nothing sent yet.  kind "none": no body written.  *)
(* keys: the keys of the JSON body.  message: the segments of the error    *)
(* text ("detail" in app.py, "error" in the two backends).                 *)
(***************************************************************************)
BlankResp ==
    [status |-> 0, kind |-> "none", keys |-> {}, message |-> <<>>,
     title |-> <<>>, formats |-> <<>>, fallback_urls |-> NoFallback,
     video_id |-> <<>>, download_url |-> "", stream_url |-> "",
     content_length |-> -1, media_type |-> "", quality |-> <<>>,
     direct_download |-> FALSE, url |-> <<>>]

\* raise HTTPException(status_code=status, detail=detail)
HTTPException(status, detail) ==
    [BlankResp EXCEPT !.status = status, !.kind = "failure",
                      !.keys = {"detail"}, !.message = detail]

(***************************************************************************)
(* app.py                                                                  *)
(***************************************************************************)
\* GET /info
get_video_info(url, outcome) ==
    IF outcome.kind = "ok"
    THEN [BlankResp EXCEPT
            !.status = 200, !.kind = "success",
            !.keys = {"success", "title", "description", "duration", "thumbnail",
                      "uploader", "view_count", "formats", "url"},
            !.title = <<Get(outcome.info, "title", "Unknown")>>,
            !.formats = app_formats(outcome.info),
            !.url = url]
    ELSE HTTPException(400, <<"Failed to extract info: ", outcome.err>>)

\* GET /download; listing is os.listdir(temp_dir) after the oracle returned
download_video(url, quality, outcome) ==
    LET ext == download_selector(quality).ext
        listing == outcome.listing
        found == {i \in 1..Len(listing) : listing[i].starts_with_file_id}
    IN  IF outcome.kind # "ok"
        THEN HTTPException(500, <<"Download failed: ", outcome.err>>)
        ELSE IF found = {}
        THEN HTTPException(500, <<"Download failed: ", "Downloaded file not found">>)
        ELSE [BlankResp EXCEPT
                !.status = 200, !.kind = "success",
                !.title = <<Get(outcome.info, "title", "video")>>,
                !.content_length = listing[MinOf(found)].size,
                !.media_type = (IF ext = "mp3" THEN "audio" ELSE "video") \o "/" \o ext]

\* GET /stream
stream_video_url(url, quality, outcome) ==
    LET info == outcome.info
        success(stream_url) ==
            [BlankResp EXCEPT
                !.status = 200, !.kind = "success",
                !.keys = {"success", "stream_url", "title", "duration", "quality",
                          "direct_download"},
                !.stream_url = stream_url,
                !.title = <<Get(info, "title", "Video")>>,
                !.quality = quality,
                !.direct_download = TRUE]
    IN  IF outcome.kind # "ok"
        THEN HTTPException(400, <<"Stream URL extraction failed: ", outcome.err>>)
        ELSE IF "url" \in DOMAIN info
        THEN success(info.url)
        ELSE IF "formats" \in DOMAIN info /\ info.formats # <<>>
        THEN success(Get(info.formats[Len(info.formats)], "url", ""))
        ELSE HTTPException(400, <<"Stream URL extraction failed: ", "No stream URL found">>)

(***************************************************************************)
(* backend.py                                                              *)
(***************************************************************************)
\* get_video_info: the dict returned, or the text of the Exception raised
backend_get_video_info(url, outcome) ==
    CASE outcome.kind = "ok" ->
           [raised |-> FALSE, message |-> <<>>,
            title |-> <<Get(outcome.info, "title", "Unknown Title")>>,
            formats |-> extract_formats(Get(outcome.info, "formats", <<>>))]
      [] outcome.kind = "timeout" ->
           [raised |-> TRUE, title |-> <<>>, formats |-> <<>>,
            message |-> <<"Request timeout - video processing took too long">>]
      [] outcome.kind = "not_found" ->
           [raised |-> TRUE, title |-> <<>>, formats |-> <<>>,
            message |-> <<"yt-dlp not found - please install it">>]
      [] outcome.kind = "error" ->
           [raised |-> TRUE, title |-> <<>>, formats |-> <<>>,
            message |-> <<"Video info extraction failed: ", "yt-dlp error: ", outcome.err>>]
      [] OTHER ->
           [raised |-> TRUE, title |-> <<>>, formats |-> <<>>,
            message |-> <<"Video info extraction failed: ", outcome.err>>]

\* get_download_url: the first line of stdout, or the text of the Exception
get_download_url(url, quality, outcome) ==
    CASE outcome.kind = "ok" ->
           [raised |-> FALSE, message |-> <<>>, download_url |-> outcome.stdout]
      [] outcome.kind = "timeout" ->
           [raised |-> TRUE, download_url |-> "",
            message |-> <<"Request timeout - download URL generation took too long">>]
      [] outcome.kind = "error" ->
           [raised |-> TRUE, download_url |-> "",
            message |-> <<"Download URL generation failed: ", "yt-dlp error: ", outcome.err>>]
      [] OTHER ->
           [raised |-> TRUE, download_url |-> "",
            message |-> <<"Download URL generation failed: ", outcome.err>>]

\* the except branch without fallback_urls
error_response_without_fallback(prefix, message, url) ==
    [BlankResp EXCEPT !.status = 200, !.kind = "failure", !.keys = {"error"},
                      !.message = <<prefix>> \o message]

\* the except branch of do_GET: the error body with its fallback_urls; when
\* generate_fallback_urls raises, the exception leaves do_GET and no body is
\* written after the headers
error_response(prefix, message, url) ==
    LET fb == generate_fallback_urls(url)
    IN  IF fb.raised
        THEN [BlankResp EXCEPT !.status = 200]
        ELSE [BlankResp EXCEPT
                !.status = 200, !.kind = "failure",
                !.keys = {"error", "fallback_urls"},
                !.message = <<prefix>> \o message,
                !.fallback_urls = fb.urls]

\* a body {'error': text}
error_only(text) ==
    [BlankResp EXCEPT !.status = 200, !.kind = "failure",
                      !.keys = {"error"}, !.message = <<text>>]

\* do_GET: send_response(200) comes first, on every path
do_GET(path, url, quality, outcome) ==
    IF path = "/video-info"
    THEN IF url # <<>>
         THEN LET info == backend_get_video_info(url, outcome)
              IN  IF info.raised
                  THEN error_response("Failed to get video info: ", info.message, url)
                  ELSE [BlankResp EXCEPT
                          !.status = 200, !.kind = "success",
                          !.keys = {"title", "thumbnail", "duration", "description",
                                    "formats", "success"},
                          !.title = info.title,
                          !.formats = info.formats]
         ELSE error_only("No URL provided")
    ELSE IF path = "/download"
    THEN IF url # <<>>
         THEN LET d == get_download_url(url, quality, outcome)
              IN  IF d.raised
                  THEN error_response("Failed to get download URL: ", d.message, url)
                  ELSE [BlankResp EXCEPT
                          !.status = 200, !.kind = "success",
                          !.keys = {"download_url"},
                          !.download_url = d.download_url]
         ELSE error_only("No URL provided")
    ELSE error_only("Invalid endpoint")

(***************************************************************************)
(* simple_backend.py                                                       *)
(***************************************************************************)
\* send_error_response(message)
send_error_response(text) ==
    [BlankResp EXCEPT !.status = 200, !.kind = "failure",
                      !.keys = {"success", "error"}, !.message = <<text>>]

\* get_youtube_info: the cleaned text of the page's title element, or the
\* placeholder when the page has none or the fetch fails (bare except)
get_youtube_info(video_id, outcome) ==
    IF outcome.kind = "ok" /\ "title" \in DOMAIN outcome.info
    THEN <<outcome.info.title>>
    ELSE <<"Video ", video_id>>

SimpleFormats ==
    <<[quality |-> "mp3", ext |-> "mp3", height |-> 0],
      [quality |-> "360p", ext |-> "mp4", height |-> 360],
      [quality |-> "720p", ext |-> "mp4", height |-> 720],
      [quality |-> "1080p", ext |-> "mp4", height |-> 1080]>>

\* handle_video_info; has_url: 'url' in query_params
handle_video_info(has_url, url, outcome) ==
    IF ~has_url THEN send_error_response("URL parameter required")
    ELSE LET m == extract_youtube_id(url)
         IN  IF ~m.matched THEN send_error_response("Invalid YouTube URL")
             ELSE [BlankResp EXCEPT
                     !.status = 200, !.kind = "success",
                     !.keys = {"success", "video_id", "title", "thumbnail", "formats"},
                     !.video_id = m.group,
                     !.title = get_youtube_info(m.group, outcome),
                     !.formats = SimpleFormats]

(***************************************************************************)
(* The cases each endpoint is driven with.                                 *)
(***************************************************************************)
Request(server, path, has_url, url, quality) ==
    [server |-> server, path |-> path, has_url |-> has_url, url |-> url,
     quality |-> quality]

NoRequest == Request("", "", FALSE, <<>>, <<>>)

LibraryFailures == {Failed("error", e) : e \in OracleErrors}

SubprocessFailures ==
    LibraryFailures
    \cup {Failed("timeout", TimeoutText), Failed("not_found", NotFoundText),
          Failed("bad_json", JsonText)}

InfoResults ==
    {Returned([title |-> "T"])}
    \cup {Returned([title |-> "T", formats |-> f]) : f \in FormatInputs}

AppInfoCases ==
    {<<u, o>> : u \in AppUrls,
                o \in LibraryFailures
                      \cup {Returned([title |-> "T"]), Returned([formats |-> <<>>])}}
    \cup {<<Ex1, o>> : o \in InfoResults}

File(starts_with_file_id, size) ==
    [starts_with_file_id |-> starts_with_file_id, size |-> size]

Listings ==
    {<<>>, <<File(TRUE, 7)>>, <<File(TRUE, 0)>>, <<File(FALSE, 3)>>,
     <<File(FALSE, 3), File(TRUE, 7)>>, <<File(TRUE, 7), File(TRUE, 3)>>}

Downloaded(listing) == Outcome("ok", "", [title |-> "T"], "", listing)

AppDownloadCases ==
    {<<u, q, o>> : u \in AppUrls, q \in {S_best, S_audio, Q720p},
                   o \in LibraryFailures \cup {Downloaded(l) : l \in Listings}}
    \cup {<<Ex1, q, o>> : q \in Qualities,
                          o \in {Failed("error", "ERROR: Video unavailable"),
                                 Downloaded(<<File(TRUE, 7)>>)}}

StreamInfos ==
    {[title |-> "T"],
     [title |-> "T", url |-> "https://cdn/top"],
     [title |-> "T", url |-> ""],
     [url |-> "https://cdn/top", formats |-> <<[url |-> "https://cdn/1"]>>],
     [title |-> "T", formats |-> <<>>],
     [title |-> "T", formats |-> <<[url |-> "https://cdn/1"]>>],
     [formats |-> <<[url |-> "https://cdn/1"], [url |-> "https://cdn/2"]>>],
     [formats |-> <<[url |-> "https://cdn/1"], [format_id |-> "2"]>>]}

AppStreamCases ==
    {<<u, q, o>> : u \in AppUrls, q \in {S_best, S_audio, Q720p},
                   o \in LibraryFailures \cup {Returned(i) : i \in StreamInfos}}
    \cup {<<Ex1, q, o>> : q \in Qualities,
                          o \in {Failed("error", "ERROR: Video unavailable"),
                                 Returned([title |-> "T", url |-> "https://cdn/top"])}}

\* every url, with the oracle failing
BackendInfoUrlCases ==
    {<<u, Failed("error", "ERROR: Video unavailable")>> : u \in Urls}

BackendInfoCases ==
    {<<u, o>> : u \in AppUrls,
                     o \in SubprocessFailures
                           \cup {Returned([title |-> "T"]), Returned([formats |-> <<>>])}}
    \cup {<<Ex1, o>> : o \in InfoResults}

Printed(stdout) == Outcome("ok", "", NoInfo, stdout, <<>>)

\* every url, with the oracle timing out
BackendDownloadUrlCases ==
    {<<u, S_best, Failed("timeout", TimeoutText)>> : u \in Urls}

BackendDownloadCases ==
    {<<u, q, o>> : u \in AppUrls, q \in {S_best, S_audio, Q720p},
                        o \in SubprocessFailures \cup {Printed("https://cdn/direct"), Printed("")}}
    \cup {<<Ex1, q, o>> : q \in Qualities,
                          o \in {Printed("https://cdn/direct"),
                                 Failed("error", "ERROR: Video unavailable")}}

\* every url, with the page fetched
SimpleInfoUrlCases ==
    {<<TRUE, u, Returned([title |-> "Clip"])>> : u \in Urls \ {<<>>}}

SimpleInfoCases ==
    {<<FALSE, <<>>, Failed("none", "")>>}
    \cup {<<TRUE, u, o>> : u \in {Ex1, Ex2},
                           o \in {Returned(NoInfo), Failed("error", "<urlopen error timed out>")}}

(***************************************************************************)
(* The temporary directories of app.py /download.  temp_dirs is the set of *)
(* directories created by the server that exist on disk; downloads counts  *)
(* the /download requests that reached the handler body.                   *)
(***************************************************************************)
\* the names tempfile.mkdtemp() can draw
DirNames == 1..MaxDownloads

\* tempfile.mkdtemp(): creates a directory under a name that does not exist
mkdtemp(dirs) == DirNames \ dirs

\* mutant of temp_dirs_after: the handler removes its directory before it returns
temp_dirs_cleaned_up(dirs, temp_dir) == dirs

\* the directories on disk once download_video has returned or raised: no
\* path of the handler removes temp_dir or the file in it
temp_dirs_after(dirs, temp_dir) == dirs \cup {temp_dir}

\* No handler but /download touches the disk and none reads temp_dirs: the
\* requests are drawn from the full case sets while the disk is empty, and
\* from a sample of them once directories exist.
Swept(full, sample) == IF temp_dirs = {} THEN full ELSE sample

AppInfoSample ==
    {<<Ex1, Returned([title |-> "T"])>>,
     <<NotAUrl, Failed("error", "ERROR: Unsupported URL")>>}

AppDownloadSample ==
    {<<u, q, o>> : u \in {Ex1}, q \in {S_best, Q720p},
                   o \in {Failed("error", "ERROR: Video unavailable"),
                          Downloaded(<<>>), Downloaded(<<File(TRUE, 7)>>)}}

AppStreamSample ==
    {<<Ex1, S_best, Returned([title |-> "T", url |-> "https://cdn/top"])>>,
     <<NotAUrl, S_best, Failed("error", "ERROR: Unsupported URL")>>}

BackendInfoSample ==
    {<<Ex1, Returned([title |-> "T"])>>,
     <<Ex1, Failed("error", "ERROR: Video unavailable")>>}

BackendDownloadSample ==
    {<<Ex1, S_best, Printed("https://cdn/direct")>>,
     <<Ex1, S_best, Failed("timeout", TimeoutText)>>}

SimpleInfoSample ==
    {<<TRUE, Ex1, Returned([title |-> "Clip"])>>,
     <<FALSE, <<>>, Failed("none", "")>>}

(***************************************************************************)
(* The servers: one request is handled at a time and leaves nothing behind *)
(* in memory; app.py /download leaves its temporary directory on disk.     *)
(***************************************************************************)
Init ==
    /\ pc = "idle"
    /\ req = NoRequest
    /\ call = NoCall
    /\ resp = BlankResp
    /\ temp_dirs = {}
    /\ downloads = 0

\* app.py GET /info
AppInfo ==
    /\ pc = "idle"
    /\ \E c \in Swept(AppInfoCases, AppInfoSample) :
        /\ req' = Request("app", "/info", TRUE, c[1], <<>>)
        /\ call' = Invoke(<<>>, c[2])
        /\ resp' = get_video_info(c[1], c[2])
    /\ pc' = "done"
    /\ UNCHANGED <<temp_dirs, downloads>>

\* app.py GET /download
AppDownload ==
    /\ pc = "idle"
    /\ downloads < MaxDownloads
    /\ \E c \in Swept(AppDownloadCases, AppDownloadSample) :
        /\ req' = Request("app", "/download", TRUE, c[1], c[2])
        /\ call' = Invoke(download_selector(c[2]).format_selector, c[3])
        /\ resp' = download_video(c[1], c[2], c[3])
    /\ \E temp_dir \in mkdtemp(temp_dirs) :
        temp_dirs' = temp_dirs_after(temp_dirs, temp_dir)
    /\ downloads' = downloads + 1
    /\ pc' = "done"

\* app.py GET /stream
AppStream ==
    /\ pc = "idle"
    /\ \E c \in Swept(AppStreamCases, AppStreamSample) :
        /\ req' = Request("app", "/stream", TRUE, c[1], c[2])
        /\ call' = Invoke(stream_selector(c[2]), c[3])
        /\ resp' = stream_video_url(c[1], c[2], c[3])
    /\ pc' = "done"
    /\ UNCHANGED <<temp_dirs, downloads>>

\* backend.py GET /video-info
BackendVideoInfo ==
    /\ pc = "idle"
    /\ \E cases \in Swept({BackendInfoCases, BackendInfoUrlCases}, {BackendInfoSample}) : \E c \in cases :
        /\ req' = Request("backend", "/video-info", c[1] # <<>>, c[1], <<>>)
        /\ call' = IF c[1] # <<>> THEN Invoke(<<>>, c[2]) ELSE NoCall
        /\ resp' = do_GET("/video-info", c[1], S_best, c[2])
    /\ pc' = "done"
    /\ UNCHANGED <<temp_dirs, downloads>>

\* backend.py GET /download
BackendDownload ==
    /\ pc = "idle"
    /\ \E cases \in Swept({BackendDownloadCases, BackendDownloadUrlCases}, {BackendDownloadSample}) : \E c \in cases :
        /\ req' = Request("backend", "/download", c[1] # <<>>, c[1], c[2])
        /\ call' = IF c[1] # <<>> THEN Invoke(backend_selector(c[2]), c[3]) ELSE NoCall
        /\ resp' = do_GET("/download", c[1], c[2], c[3])
    /\ pc' = "done"
    /\ UNCHANGED <<temp_dirs, downloads>>

\* backend.py GET of any other path
BackendOther ==
    /\ pc = "idle"
    /\ \E path \in {"/", "/health"}, u \in AppUrls :
        /\ req' = Request("backend", path, TRUE, u, <<>>)
        /\ resp' = do_GET(path, u, S_best, Failed("none", ""))
    /\ call' = NoCall
    /\ pc' = "done"
    /\ UNCHANGED <<temp_dirs, downloads>>

\* simple_backend.py GET /video-info
SimpleVideoInfo ==
    /\ pc = "idle"
    /\ \E cases \in Swept({SimpleInfoCases, SimpleInfoUrlCases}, {SimpleInfoSample}) : \E c \in cases :
        /\ req' = Request("simple", "/video-info", c[1], c[2], <<>>)
        /\ call' = IF c[1] /\ extract_youtube_id(c[2]).matched
                   THEN Invoke(<<>>, c[3]) ELSE NoCall
        /\ resp' = handle_video_info(c[1], c[2], c[3])
    /\ pc' = "done"
    /\ UNCHANGED <<temp_dirs, downloads>>

\* the response is out and the connection closed
Finish ==
    /\ pc = "done"
    /\ pc' = "idle"
    /\ req' = NoRequest
    /\ call' = NoCall
    /\ resp' = BlankResp
    /\ UNCHANGED <<temp_dirs, downloads>>

Next ==
    \/ AppInfo
    \/ AppDownload
    \/ AppStream
    \/ BackendVideoInfo
    \/ BackendDownload
    \/ BackendOther
    \/ SimpleVideoInfo
    \/ Finish

Spec == Init /\ [][Next]_vars

(***************************************************************************)
(* Properties.                                                             *)
(***************************************************************************)
Done(server, path) == pc = "done" /\ req.server = server /\ req.path = path

\* the oracle's "formats" list of the request being answered
OracleFormats == Get(call.outcome.info, "formats", <<>>)

RespCap == IF req.server = "app" THEN InfoCap ELSE BackendCap

\* a successful answer of one of the two format normalizers
NormalizerAnswered ==
    /\ Done("app", "/info") \/ Done("backend", "/video-info")
    /\ resp.kind = "success"

IsAudioOnly(fmt) == Get(fmt, "vcodec", "") = "none" \/ Get(fmt, "height", 0) = 0

\* C1: the formats list of /info (cap 10) and of extract_formats (cap 5) is
\* strictly descending by height, has no two records of one height, holds
\* no record made from an audio-only input record (height 0 or vcodec
\* 'none'), and is no longer than the cap; an empty or all-audio input
\* gives the empty list.
C1_NormalizerOutput ==
    NormalizerAnswered =>
        LET out == resp.formats
            raw == OracleFormats
        IN  /\ \A i \in 1..(Len(out) - 1) : out[i].height > out[i + 1].height
            /\ \A i, j \in 1..Len(out) : i # j => out[i].height # out[j].height
            /\ \A i \in 1..Len(out) :
                 /\ out[i].height # 0
                 /\ \E k \in 1..Len(raw) :
                      /\ raw[k].format_id = out[i].format_id
                      /\ Get(raw[k], "height", 0) = out[i].height
                      /\ ~IsAudioOnly(raw[k])
            /\ Len(out) <= RespCap
            /\ (\A k \in 1..Len(raw) : IsAudioOnly(raw[k])) => out = <<>>

\* C1 witness: /info answered from a list with an audio-only record and more
\* distinct video heights than the cap, cut to the cap.
C1_Witness ==
    /\ Done("app", "/info")
    /\ resp.kind = "success"
    /\ Len(resp.formats) = InfoCap
    /\ \E k \in 1..Len(OracleFormats) : IsAudioOnly(OracleFormats[k])
    /\ Cardinality({Get(OracleFormats[k], "height", 0) :
                      k \in {n \in 1..Len(OracleFormats) : ~IsAudioOnly(OracleFormats[n])}})
         > InfoCap

\* the characters at which the identifier stops
IdStops == {"&", "?", "#", "\n"}

\* the positions of url right after 'youtube.com/watch?v=', 'youtu.be/' or
\* 'youtube.com/embed/' where an identifier character stands
DirectStarts(url) ==
    {b \in 1..Len(url) :
        /\ url[b] \notin IdStops
        /\ \E p \in {S_watch_v, S_youtu_be_slash, S_embed} :
             b > Len(p) /\ SubSeq(url, b - Len(p), b - 1) = p}

\* the positions right after a 'v=' that comes later on the line of a
\* 'youtube.com/watch?' where an identifier character stands
QueryStarts(url) ==
    {b \in 3..Len(url) :
        /\ url[b] \notin IdStops
        /\ SubSeq(url, b - 2, b - 1) = S_v_eq
        /\ \E i \in 1..(b - 2 - Len(S_watch)) :
             /\ SubSeq(url, i, i + Len(S_watch) - 1) = S_watch
             /\ \A k \in (i + Len(S_watch))..(b - 3) : url[k] # "\n"}

\* id is the longest run of identifier characters of url that begins at b
IsRunAt(url, b, id) ==
    /\ id # <<>>
    /\ b + Len(id) - 1 <= Len(url)
    /\ SubSeq(url, b, b + Len(id) - 1) = id
    /\ \A k \in 1..Len(id) : id[k] \notin IdStops
    /\ b + Len(id) <= Len(url) => url[b + Len(id)] \in IdStops

\* C3: extract_youtube_id returns the maximal non-empty run without '&',
\* '?', '#', newline that follows the first 'youtube.com/watch?v=',
\* 'youtu.be/' or 'youtube.com/embed/' having one (else one that follows a
\* later 'v=' of a youtube.com/watch? query); the two example URLs yield
\* ABC123 and XYZ789; a URL with no such run yields None, answered as
\* "Invalid YouTube URL", with no error raised.
C3_ExtractYoutubeId ==
    (Done("simple", "/video-info") /\ req.has_url) =>
        LET url == req.url
            id == resp.video_id
        IN  /\ resp.kind \in {"success", "failure"}
            /\ resp.kind = "failure" <=>
                 DirectStarts(url) = {} /\ QueryStarts(url) = {}
            /\ resp.kind = "failure" =>
                 resp.message = <<"Invalid YouTube URL">> /\ id = <<>>
            /\ (resp.kind = "success" /\ DirectStarts(url) # {}) =>
                 \E b \in DirectStarts(url) :
                    /\ IsRunAt(url, b, id)
                    /\ \A c \in DirectStarts(url) : b <= c
            /\ (resp.kind = "success" /\ DirectStarts(url) = {}) =>
                 \E b \in QueryStarts(url) : IsRunAt(url, b, id)
            /\ url = Ex1 => id = <<"A", "B", "C", "1", "2", "3">>
            /\ url = Ex2 => id = <<"X", "Y", "Z", "7", "8", "9">>
            /\ url = NotAUrl => resp.kind = "failure"

\* C3 witness: the first example URL answered with the identifier ABC123.
C3_Witness ==
    /\ Done("simple", "/video-info")
    /\ req.url = Ex1
    /\ resp.kind = "success"
    /\ resp.video_id = <<"A", "B", "C", "1", "2", "3">>

\* the first maximal run of digits of a quality token
LeadingDigitRun(q) ==
    LET digits == {i \in 1..Len(q) : q[i] \in {"0", "1", "2", "3", "4", "5", "6", "7", "8", "9"}}
    IN  IF digits = {} THEN <<>>
        ELSE LET first == MinOf(digits)
                 last == MaxOf({j \in first..Len(q) : \A k \in first..j : k \in digits})
             IN  SubSeq(q, first, last)

\* the selector the Quality Selector is specified to give
SpecifiedSelector(q) ==
    IF q \in {S_audio, S_mp3} THEN S_bestaudio
    ELSE IF q \in {S_best, S_worst} THEN q
    ELSE IF LeadingDigitRun(q) # <<>>
         THEN S_height_le \o LeadingDigitRun(q) \o S_rbracket
         ELSE S_best

\* C2: /download and /stream of app.py resolve 'audio' and 'mp3' to
\* 'bestaudio/best' (mp3 on /download), 'best' and 'worst' to themselves
\* (mp4), any other token with digits to 'best[height<=N]' with N its
\* leading digit run, and any other token to 'best'; both endpoints resolve
\* a token to the same selector.
C2_QualitySelector ==
    (Done("app", "/download") \/ Done("app", "/stream")) =>
        /\ call.selector = SpecifiedSelector(req.quality)
        /\ download_selector(req.quality).format_selector = stream_selector(req.quality)
        /\ download_selector(req.quality).ext =
             (IF req.quality \in {S_audio, S_mp3} THEN "mp3" ELSE "mp4")

\* the request reached the except branch of backend.py's do_GET
BackendFailed ==
    /\ Done("backend", "/video-info") \/ Done("backend", "/download")
    /\ call.invoked
    /\ call.outcome.kind # "ok"

\* url with '&' and '=' percent-escaped, every other character unchanged
RECURSIVE Escaped(_)
Escaped(url) ==
    IF url = <<>> THEN <<>>
    ELSE (CASE Head(url) = "&" -> <<"%", "2", "6">>
            [] Head(url) = "=" -> <<"%", "3", "D">>
            [] OTHER -> <<Head(url)>>) \o Escaped(Tail(url))

EndsWith(s, tail) ==
    Len(s) >= Len(tail) /\ SubSeq(s, Len(s) - Len(tail) + 1, Len(s)) = tail

\* url holds none of the markers an identifier is derived from
NoIdentifierMarker(url) ==
    /\ ~Contains(url, <<"v", "=">>)
    /\ ~Contains(url, <<"/", "e", "m", "b", "e", "d", "/">>)
    /\ ~Contains(url, <<"y", "o", "u", "t", "u", ".", "b", "e", "/">>)

\* C4: generate_fallback_urls completes for every URL and returns exactly the
\* keys savefrom, y2mate, keepvid, clipconverter, onlinevideoconverter; every
\* value but y2mate holds the URL with '&' and '=' escaped and nothing else
\* changed; y2mate holds the derived identifier.
C4_FallbackTotal ==
    BackendFailed =>
        /\ resp.kind = "failure"
        /\ DOMAIN resp.fallback_urls =
             {"savefrom", "y2mate", "keepvid", "clipconverter", "onlinevideoconverter"}
        /\ \A k \in DOMAIN resp.fallback_urls \ {"y2mate"} :
             EndsWith(resp.fallback_urls[k], Escaped(req.url))
        /\ "y2mate" \in DOMAIN resp.fallback_urls =>
             /\ IsPrefixAt(resp.fallback_urls["y2mate"], S_y2mate, 1)
             /\ NoIdentifierMarker(req.url) => resp.fallback_urls["y2mate"] = S_y2mate

\* a /download request of app.py or backend.py is answered
DownloadAnswered == Done("app", "/download") \/ Done("backend", "/download")

HasFallbackSet == DOMAIN resp.fallback_urls # {}

\* C5: every /download outcome is a success (app.py: an attachment whose
\* Content-Length is the size of the downloaded file; backend.py: a body
\* with download_url) or a failure envelope that carries a fallback URL set.
C5_DownloadOutcomes ==
    DownloadAnswered =>
        \/ /\ resp.kind = "success"
           /\ req.server = "app" =>
                \E i \in 1..Len(call.outcome.listing) :
                   resp.content_length = call.outcome.listing[i].size
           /\ req.server = "backend" => "download_url" \in resp.keys
        \/ /\ resp.kind = "failure"
           /\ HasFallbackSet

\* the URLs on which backend.py's extract_video_id raises
FallbackRaises(url) ==
    /\ ~Contains(url, S_youtube_com)
    /\ Contains(url, S_youtu_be)
    /\ ~Contains(url, S_youtu_be_slash)

\* C5 as amended: app.py answers /download with the attachment (its
\* Content-Length the size of the first listed file named by file_id) or with
\* a 500 failure envelope without fallback set; backend.py answers a request
\* with a url by a body with download_url, by a failure envelope with the
\* fallback set of the five services, or, when the oracle fails and the
\* fallback generation raises, by no body; a request without url gets the
\* failure envelope 'No URL provided' without fallback set.
C5_DownloadOutcomesAmended ==
    /\ Done("app", "/download") =>
         LET listing == call.outcome.listing
             named == {i \in 1..Len(listing) : listing[i].starts_with_file_id}
         IN  IF call.outcome.kind = "ok" /\ named # {}
             THEN /\ resp.kind = "success" /\ resp.status = 200
                  /\ \E i \in named : /\ resp.content_length = listing[i].size
                                      /\ \A j \in named : i <= j
             ELSE /\ resp.kind = "failure" /\ resp.status = 500
                  /\ resp.keys = {"detail"}
                  /\ resp.message[1] = "Download failed: "
                  /\ ~HasFallbackSet
    /\ Done("backend", "/download") =>
         IF req.url = <<>>
         THEN /\ resp.kind = "failure"
              /\ resp.message = <<"No URL provided">>
              /\ ~HasFallbackSet
         ELSE IF call.outcome.kind = "ok"
         THEN /\ resp.kind = "success"
              /\ resp.keys = {"download_url"}
              /\ resp.download_url = call.outcome.stdout
         ELSE IF FallbackRaises(req.url)
         THEN resp.kind = "none"
         ELSE /\ resp.kind = "failure"
              /\ resp.keys = {"error", "fallback_urls"}
              /\ resp.message[1] = "Failed to get download URL: "
              /\ DOMAIN resp.fallback_urls =
                   {"savefrom", "y2mate", "keepvid", "clipconverter", "onlinevideoconverter"}

\* C5 witness: backend.py answers a failed /download with the error and the
\* fallback set.
C5_Witness ==
    /\ Done("backend", "/download")
    /\ call.invoked /\ call.outcome.kind = "timeout"
    /\ resp.kind = "failure"
    /\ HasFallbackSet

\* an info request is answered
InfoAnswered ==
    Done("app", "/info") \/ Done("backend", "/video-info") \/ Done("simple", "/video-info")

\* C6: every info request, whatever the URL and the oracle's outcome, ends
\* with exactly one complete JSON envelope written: a success envelope with
\* a formats sequence or a failure envelope with an error message; no
\* exception leaves the handler.
C6_InfoEnvelope ==
    InfoAnswered =>
        \/ resp.kind = "success" /\ "formats" \in resp.keys
        \/ resp.kind = "failure" /\ resp.message # <<>>

\* a metadata or stream request of app.py or backend.py whose oracle was
\* invoked is answered
MetadataAnswered ==
    /\ Done("app", "/info") \/ Done("app", "/stream") \/ Done("backend", "/video-info")
    /\ call.invoked

\* C7: when the oracle invocation of an info or stream request fails or
\* times out, the response has a 4xx or 5xx status and its message holds
\* the underlying error string; a 2xx status is sent only on success.
C7_FailureStatus ==
    MetadataAnswered =>
        /\ call.outcome.kind # "ok" =>
             /\ resp.status \in 400..599
             /\ \E i \in 1..Len(resp.message) : resp.message[i] = call.outcome.err
        /\ resp.status \in 200..299 => resp.kind = "success"

\* a selector the oracle accepts: best, worst, or best[height<=N], N digits
IsWellFormedSelector(sel) ==
    \/ sel \in {S_best, S_worst}
    \/ /\ Len(sel) > Len(S_height_le) + 1
       /\ SubSeq(sel, 1, Len(S_height_le)) = S_height_le
       /\ sel[Len(sel)] = "]"
       /\ \A k \in (Len(S_height_le) + 1)..(Len(sel) - 1) :
            sel[k] \in {"0", "1", "2", "3", "4", "5", "6", "7", "8", "9"}

\* C9: get_download_url of backend.py never builds a malformed selector:
\* 'best' and 'worst' pass through, a token with digits gives
\* 'best[height<=N]' with N a pure digit run, any other token gives 'best'.
C9_BackendSelector ==
    (Done("backend", "/download") /\ call.invoked) =>
        /\ IsWellFormedSelector(call.selector)
        /\ req.quality \in {S_best, S_worst} => call.selector = req.quality
        /\ LeadingDigitRun(req.quality) = <<>> => call.selector \in {S_best, S_worst}

\* C10: /stream answers with the oracle's top-level url if there is one,
\* else with the url of the last entry of a non-empty formats list, else
\* with the failure envelope; a success envelope always carries a media URL
\* (never empty or missing), direct_download = true and the quality as
\* requested.
C10_StreamUrl ==
    (Done("app", "/stream") /\ call.outcome.kind = "ok") =>
        LET info == call.outcome.info
        IN  /\ "url" \in DOMAIN info =>
                 resp.kind = "success" /\ resp.stream_url = info.url
            /\ ("url" \notin DOMAIN info /\ Get(info, "formats", <<>>) # <<>>) =>
                 /\ resp.kind = "success"
                 /\ "url" \in DOMAIN info.formats[Len(info.formats)] =>
                      resp.stream_url = info.formats[Len(info.formats)].url
            /\ ("url" \notin DOMAIN info /\ Get(info, "formats", <<>>) = <<>>) =>
                 resp.kind = "failure"
            /\ resp.kind = "success" =>
                 /\ resp.stream_url # ""
                 /\ resp.direct_download
                 /\ resp.quality = req.quality

\* the record the normalizer makes of raw record fmt
SameRecord(out, fmt) ==
    /\ out.format_id = fmt.format_id
    /\ out.height = Get(fmt, "height", 0)
    /\ out.ext = Get(fmt, "ext", "mp4")

\* the sequence is what the normalizer promises of its output
AlreadyNormal(raw, cap) ==
    /\ \A i \in 1..Len(raw) : Get(raw[i], "height", 0) # 0
    /\ \A i \in 1..(Len(raw) - 1) : Get(raw[i], "height", 0) > Get(raw[i + 1], "height", 0)
    /\ Len(raw) <= cap

SameSequence(out, raw) ==
    /\ Len(out) = Len(raw)
    /\ \A i \in 1..Len(raw) : SameRecord(out[i], raw[i])

\* the normalizer of the answering server, applied to its own output
Renormalized ==
    IF req.server = "app" THEN app_formats([formats |-> resp.formats])
    ELSE extract_formats(resp.formats)

\* C8: a sequence of records that is already strictly descending by height,
\* with pairwise distinct non-zero heights and at most cap records, comes
\* back from the normalizer as the same records in the same order; so
\* normalizing twice gives what normalizing once gives.
C8_Idempotent ==
    NormalizerAnswered =>
        /\ AlreadyNormal(OracleFormats, RespCap) => SameSequence(resp.formats, OracleFormats)
        /\ Renormalized = resp.formats

\* C8 as amended: the same, for sequences none of whose records is marked
\* vcodec 'none'.
C8_IdempotentAmended ==
    NormalizerAnswered =>
        /\ (/\ AlreadyNormal(OracleFormats, RespCap)
            /\ \A i \in 1..Len(OracleFormats) : Get(OracleFormats[i], "vcodec", "") # "none")
             => SameSequence(resp.formats, OracleFormats)
        /\ Renormalized = resp.formats

\* C8 witness: /info answered from a list of exactly cap video records in
\* descending order, returned as it came.
C8_Witness ==
    /\ Done("app", "/info")
    /\ resp.kind = "success"
    /\ Len(OracleFormats) = InfoCap
    /\ AlreadyNormal(OracleFormats, InfoCap)
    /\ \A i \in 1..Len(OracleFormats) : Get(OracleFormats[i], "vcodec", "") # "none"
    /\ SameSequence(resp.formats, OracleFormats)


(***************************************************************************)
(* C11: temporary directories of app.py /download                          *)
(***************************************************************************)
\* the step is a /download request of app.py entering and leaving its handler
IsDownloadStep ==
    pc = "idle" /\ pc' = "done" /\ req'.server = "app" /\ req'.path = "/download"

\* the step adds exactly one directory, one that did not exist before
CreatesOneFreshDir ==
    \E d \in temp_dirs' \ temp_dirs : temp_dirs' = temp_dirs \cup {d}

\* C11: every /download request of app.py creates exactly one fresh
\* temporary directory and no step removes one, whatever the outcome of the
\* request: after n /download requests exactly n directories exist, and the
\* number of directories never decreases.
C11_TempDirsAccumulate ==
    /\ [](Cardinality(temp_dirs) = downloads)
    /\ [][/\ temp_dirs \subseteq temp_dirs'
          /\ IF IsDownloadStep
             THEN CreatesOneFreshDir /\ downloads' = downloads + 1
             ELSE temp_dirs' = temp_dirs /\ downloads' = downloads]_vars

\* a second /download has failed and both directories are on disk
C11_Witness ==
    /\ Done("app", "/download")
    /\ resp.status = 500
    /\ downloads = MaxDownloads
    /\ Cardinality(temp_dirs) = MaxDownloads


(***************************************************************************)
(* C12: the normalizer against its reference result                        *)
(***************************************************************************)
\* the positions of the oracle's list that hold a video record
VideoPositions(raw) == {i \in 1..Len(raw) : ~IsAudioOnly(raw[i])}

\* the distinct heights of the video records
VideoHeights(raw) == {raw[i].height : i \in VideoPositions(raw)}

\* the first position of the oracle's list with a video record of height h
FirstSeen(raw, h) ==
    MinOf({i \in VideoPositions(raw) : raw[i].height = h})

\* the output record is made from the input record fmt
MadeFrom(entry, fmt) ==
    /\ entry.height = fmt.height
    /\ entry.quality = QualityLabel(fmt.height)
    /\ entry.format_id = fmt.format_id
    /\ entry.ext = Get(fmt, "ext", "mp4")
    /\ "filesize" \in DOMAIN fmt => entry.filesize = fmt.filesize

\* C12: the formats list is the reference result: of the video records (not
\* audio-only, non-zero height) the first-seen record of each height, sorted
\* by height descending, cut to the cap.  The j-th output record has the
\* j-th largest of the k distinct video heights, is made from the first
\* input record of that height, and there are min(cap, k) of them.
C12_ReferenceResult ==
    NormalizerAnswered =>
        LET out == resp.formats
            raw == OracleFormats
            heights == VideoHeights(raw)
        IN  /\ Len(out) = MinOf({RespCap, Cardinality(heights)})
            /\ \A j \in 1..Len(out) :
                 /\ out[j].height \in heights
                 /\ Cardinality({h \in heights : h > out[j].height}) = j - 1
                 /\ MadeFrom(out[j], raw[FirstSeen(raw, out[j].height)])

\* C12 witness: /info answered from a list with more distinct video heights
\* than the cap, in which a height shown in the answer occurs twice with
\* different records.
C12_Witness ==
    /\ Done("app", "/info")
    /\ resp.kind = "success"
    /\ Cardinality(VideoHeights(OracleFormats)) > InfoCap
    /\ \E i, k \in VideoPositions(OracleFormats) :
         /\ i < k
         /\ OracleFormats[i].height = OracleFormats[k].height
         /\ Get(OracleFormats[i], "ext", "mp4") # Get(OracleFormats[k], "ext", "mp4")
         /\ \E j \in 1..Len(resp.formats) :
              resp.formats[j].height = OracleFormats[i].height


(***************************************************************************)
(* C13: the identifier of the fallback generator against 4.5               *)
(***************************************************************************)
\* the identifier extract_youtube_id defines for url, '' standing for None
DefinedIdentifier(url) ==
    LET m == extract_youtube_id(url)
    IN  IF m.matched THEN m.group ELSE <<>>

\* C13: whenever the fallback generator of backend.py derives an identifier,
\* extract_video_id returns for the request's URL the identifier that
\* extract_youtube_id returns for it (the empty string where that one
\* returns None), the identifier holds none of '&', '?', '#', newline, and
\* it is the one embedded in the y2mate link.
C13_SameIdentifier ==
    BackendFailed =>
        LET derived == extract_video_id(req.url)
        IN  /\ ~derived.raised
            /\ derived.value = DefinedIdentifier(req.url)
            /\ \A j \in 1..Len(derived.value) : derived.value[j] \notin IdStops
            /\ "y2mate" \in DOMAIN resp.fallback_urls
            /\ resp.fallback_urls["y2mate"] = S_y2mate \o DefinedIdentifier(req.url)

====
